---- MODULE Spec2Model ----
(***************************************************************************)
(* Pear Translate (index.js): lazy Corestore/Hyperdrive initialisation,   *)
(* upload of translations.json into the drive, retrieval with local-file  *)
(* fallback, dictionary lookup and the translate handlers.                *)
(*                                                                         *)
(* JavaScript runs one job at a time: an action below is one job, i.e. the *)
(* code of one workflow from the point where an awaited promise settles    *)
(* (or an event is dispatched) up to its next await.  Calling an async     *)
(* function runs it synchronously up to its first await; its return value  *)
(* reaches the awaiting caller in a later job.                             *)
(***************************************************************************)
EXTENDS Integers, Sequences, FiniteSets, TLC

\* Number of handleTranslate invocations (click or Ctrl/Cmd+Enter) modelled.
MaxRequests == 2

App == 0
Requests == 1..MaxRequests
Procs == {App} \cup Requests

\* ------------------------------------------------------------------------
\* Texts are sequences of one-character strings; messages are one-token texts.
\* ------------------------------------------------------------------------
Langs == {"en", "es"}
Whitespace == {" "}

MsgSameLang == <<"Please select different source and target languages">>
MsgEnterText == <<"Please enter some text to translate">>
MsgTranslating == <<"Translating...">>
MsgLoadError == <<"Error: Could not load translation data">>
MsgNoData == <<"Translation data not available">>
MsgNotAvailable == <<"Translation not available">>
MsgErrorOccurred == <<"An error occurred during translation. Please try again.">>

\* #dataSource before any updateDataSource
StatusNone == ""
StatusP2P == "Data source: Hyperdrive (P2P)"
StatusLocal == "Data source: Local file (fallback)"
StatusError == "Data source: Error loading data"

\* The parsed translations.json: language code -> ordered list of <<key, value>>.
\* null (no document) is the function with the empty domain.
NullDoc == <<>>
LocalDoc ==
  [en |-> << <<<<"h", "i">>, <<"h", "i">>>>, <<<<"y", "o">>, <<"h", "i">>>> >>,
   es |-> << <<<<"h", "i">>, <<"h", "o">>>>, <<<<"y", "o">>, <<"o", "h">>>> >>]

\* The texts a user types into #inputText.
InputTexts == { <<>>, <<" ">>, <<"H", "i">> }

\* String.prototype.toLowerCase, one character
Lower(c) == CASE c = "H" -> "h" [] c = "I" -> "i" [] c = "O" -> "o"
              [] c = "X" -> "x" [] c = "Y" -> "y" [] OTHER -> c

toLowerCase(s) == [i \in 1..Len(s) |-> Lower(s[i])]

RECURSIVE trimStart(_)
trimStart(s) ==
  IF s # <<>> /\ Head(s) \in Whitespace THEN trimStart(Tail(s)) ELSE s

RECURSIVE trimEnd(_)
trimEnd(s) ==
  IF s # <<>> /\ s[Len(s)] \in Whitespace
    THEN trimEnd(SubSeq(s, 1, Len(s) - 1)) ELSE s

trim(s) == trimEnd(trimStart(s))

\* String.prototype.split(/\s+/): cut at every maximal run of whitespace
RECURSIVE splitFrom(_, _, _, _)
splitFrom(s, i, cur, acc) ==
  IF i > Len(s) THEN Append(acc, cur)
  ELSE IF s[i] \in Whitespace
    THEN IF i > 1 /\ s[i - 1] \in Whitespace
           THEN splitFrom(s, i + 1, cur, acc)
           ELSE splitFrom(s, i + 1, <<>>, Append(acc, cur))
    ELSE splitFrom(s, i + 1, Append(cur, s[i]), acc)

split(s) == splitFrom(s, 1, <<>>, <<>>)

\* Array.prototype.join(" ")
RECURSIVE join(_)
join(ws) ==
  IF ws = <<>> THEN <<>>
  ELSE IF Len(ws) = 1 THEN ws[1]
  ELSE ws[1] \o <<" ">> \o join(Tail(ws))

\* dict[key] of a parsed JSON object: the value of the entry, or <<>> (falsy,
\* like undefined and the empty string) when there is none
RECURSIVE Lookup(_, _)
Lookup(dict, key) ==
  IF dict = <<>> THEN <<>>
  ELSE IF dict[1][1] = key THEN dict[1][2]
  ELSE Lookup(Tail(dict), key)

Truthy(v) == v # <<>>

\* the for..of loop over Object.entries(sourceDict): first entry, in insertion
\* order, whose value is the word and whose key the target dictionary has
RECURSIVE byValue(_, _, _)
byValue(entries, targetDict, word) ==
  IF entries = <<>> THEN word
  ELSE IF entries[1][2] = word /\ Truthy(Lookup(targetDict, entries[1][1]))
    THEN Lookup(targetDict, entries[1][1])
  ELSE byValue(Tail(entries), targetDict, word)

translateWord(sourceDict, targetDict, word) ==
  IF Truthy(Lookup(sourceDict, word)) /\ Truthy(Lookup(targetDict, word))
    THEN Lookup(targetDict, word)
    ELSE byValue(sourceDict, targetDict, word)

\* faulty variant of translateText: the whole-phrase test is missing
translateTextWordsOnly(translations, text, fromLang, toLang) ==
  IF fromLang = toLang THEN text
  ELSE IF translations = NullDoc
          \/ fromLang \notin DOMAIN translations
          \/ toLang \notin DOMAIN translations
    THEN MsgNoData
  ELSE
    LET sourceDict == translations[fromLang]
        targetDict == translations[toLang]
        words == split(trim(toLowerCase(text)))
    IN  join([i \in 1..Len(words) |->
                translateWord(sourceDict, targetDict, words[i])])

\* faulty variant of translateText: the input is matched as typed
translateTextAsTyped(translations, text, fromLang, toLang) ==
  IF fromLang = toLang THEN text
  ELSE IF translations = NullDoc
          \/ fromLang \notin DOMAIN translations
          \/ toLang \notin DOMAIN translations
    THEN MsgNoData
  ELSE
    LET sourceDict == translations[fromLang]
        targetDict == translations[toLang]
        words == split(text)
    IN  IF Truthy(Lookup(sourceDict, text)) /\ Truthy(Lookup(targetDict, text))
          THEN Lookup(targetDict, text)
          ELSE join([i \in 1..Len(words) |->
                       translateWord(sourceDict, targetDict, words[i])])

translateText(translations, text, fromLang, toLang) ==
  IF fromLang = toLang THEN text
  ELSE IF translations = NullDoc
          \/ fromLang \notin DOMAIN translations
          \/ toLang \notin DOMAIN translations
    THEN MsgNoData
  ELSE
    LET normalizedText == trim(toLowerCase(text))
        sourceDict == translations[fromLang]
        targetDict == translations[toLang]
        words == split(normalizedText)
    IN  IF Truthy(Lookup(sourceDict, normalizedText))
           /\ Truthy(Lookup(targetDict, normalizedText))
          THEN Lookup(targetDict, normalizedText)
          ELSE join([i \in 1..Len(words) |->
                       translateWord(sourceDict, targetDict, words[i])])

\* !text || text.trim().length === 0
Blank(text) == text = <<>> \/ trim(text) = <<>>

\* ------------------------------------------------------------------------
\* State
\* ------------------------------------------------------------------------
VARIABLES
  store, drive, hyperdriveInitialized,   \* index.js 24-26 (TRUE: not null)
  Hyperdrive, Corestore, b4a,            \* index.js 27-29 (TRUE: module handle set)
  translationsLoaded,                    \* index.js 32
  disabled,        \* #translateBtn.disabled
  outputText,      \* #outputText.textContent
  outputClass,     \* #outputText.className
  dataSource,      \* #dataSource.textContent
  listening,       \* the click and keydown listeners are registered
  latestOut,       \* history: what the most recently issued request has shown
  driveFile,       \* translations.json inside the drive: <<>> or <<document>>
  driveOpened,     \* some drive.ready() has resolved
  pc,              \* where each workflow is suspended
  ret,             \* value returned by loadHyperdriveModules / initializeHyperdrive
  ihCaller,        \* who awaits initializeHyperdrive: "lt" or "gt"
  lmCaller,        \* who awaits loadHyperdriveModules: "ih", "lt" or "gt"
  translations,    \* the document held by the workflow
  translatedText,  \* value returned by performTranslation
  req,             \* sourceLang, targetLang, inputText read by handleTranslate
  calls,           \* history: how often import(), the constructors and put ran
  probe,           \* history: the imports' outcomes and the probe's result
  connectOutcome,  \* history: how the one connection attempt ended
  obs              \* history: per workflow, what its lookup observed

vars == <<store, drive, hyperdriveInitialized, Hyperdrive, Corestore, b4a,
          translationsLoaded, disabled, outputText, outputClass, dataSource,
          listening, driveFile, driveOpened, pc, ret, ihCaller, lmCaller,
          translations, translatedText, req, calls, probe, connectOutcome, obs,
          latestOut>>

globals == <<store, drive, hyperdriveInitialized, translationsLoaded>>
handles == <<Hyperdrive, Corestore, b4a>>
page == <<disabled, outputText, outputClass, listening>>
env == <<driveFile, driveOpened>>
locals == <<translations, translatedText, req>>

\* the primitives whose invocations are counted; an awaited call is also
\* visible as the workflow's pc
Primitives == {"import", "Corestore", "Hyperdrive", "put"}

NoFile == <<>>
\* b4a.from(JSON.stringify(data, null, 2), "utf-8") and
\* JSON.parse(b4a.toString(buffer, "utf-8"))
Encode(data) == <<data>>
Decode(buffer) == buffer[1]

NoReq == [sourceLang |-> "en", targetLang |-> "en", inputText |-> <<>>]
NoObs == [drive |-> "none", local |-> "none", emitted |-> "none", src |-> "none",
          connected |-> FALSE, looked |-> FALSE]

Init ==
  /\ store = FALSE /\ drive = FALSE /\ hyperdriveInitialized = FALSE
  /\ Hyperdrive = FALSE /\ Corestore = FALSE /\ b4a = FALSE
  /\ translationsLoaded = FALSE
  /\ disabled = FALSE /\ outputText = <<>> /\ outputClass = ""
  /\ dataSource = StatusNone /\ listening = FALSE
  /\ latestOut = <<>>
  /\ driveFile \in {NoFile, Encode(LocalDoc)}   \* the storage outlives the process
  /\ driveOpened = FALSE
  /\ pc = [p \in Procs |-> "idle"]
  /\ ret = [p \in Procs |-> FALSE]
  /\ ihCaller = [p \in Procs |-> "none"]
  /\ lmCaller = [p \in Procs |-> "none"]
  /\ translations = [p \in Procs |-> NullDoc]
  /\ translatedText = [p \in Procs |-> <<>>]
  /\ req = [p \in Procs |-> NoReq]
  /\ calls = [f \in Primitives |-> 0]
  /\ probe = [attempted |-> FALSE, hyperdrive |-> FALSE, corestore |-> FALSE,
              b4a |-> FALSE, result |-> FALSE]
  /\ connectOutcome = "none"
  /\ obs = [p \in Procs |-> NoObs]

Goto(p, l) == pc' = [pc EXCEPT ![p] = l]

\* the workflow has run to its end: its locals are gone
Finish(p) ==
  /\ Goto(p, "done")
  /\ ret' = [ret EXCEPT ![p] = FALSE]
  /\ ihCaller' = [ihCaller EXCEPT ![p] = "none"]
  /\ lmCaller' = [lmCaller EXCEPT ![p] = "none"]
  /\ translations' = [translations EXCEPT ![p] = NullDoc]
  /\ translatedText' = [translatedText EXCEPT ![p] = <<>>]
  /\ req' = [req EXCEPT ![p] = NoReq]
  /\ obs' = [obs EXCEPT ![p] = NoObs]
Called(f) == calls' = [calls EXCEPT ![f] = @ + 1]

\* ------------------------------------------------------------------------
\* loadHyperdriveModules (index.js 40-108)
\* ------------------------------------------------------------------------
\* 41-74: the two cached answers, else the three imports start
LM_Enter(p, c) ==
  /\ lmCaller' = [lmCaller EXCEPT ![p] = c]
  /\ IF Hyperdrive /\ Corestore /\ b4a
       THEN Goto(p, "lm_ret") /\ ret' = [ret EXCEPT ![p] = TRUE]
            /\ UNCHANGED calls
       ELSE IF hyperdriveInitialized /\ ~Hyperdrive
         THEN Goto(p, "lm_ret") /\ ret' = [ret EXCEPT ![p] = FALSE]
              /\ UNCHANGED calls
         ELSE Goto(p, "lm_import") /\ Called("import") /\ UNCHANGED ret

\* faulty variant of failedModules: a failed b4a import goes unnoticed
failedModulesWithoutB4a(h, c, b) ==
  (IF h THEN <<>> ELSE <<"hyperdrive">>)
    \o (IF c THEN <<>> ELSE <<"corestore">>)

\* 76-80
failedModules(h, c, b) ==
  (IF h THEN <<>> ELSE <<"hyperdrive">>)
    \o (IF c THEN <<>> ELSE <<"corestore">>)
    \o (IF b THEN <<>> ELSE <<"b4a">>)

\* faulty variant of LM_AfterImports: each handle is set from its own import
LM_AfterImportsPartial(p) ==
  /\ pc[p] = "lm_import"
  /\ \E h, c, b \in BOOLEAN :
       LET loaded == Len(failedModules(h, c, b)) = 0
       IN  /\ Hyperdrive' = h /\ Corestore' = c /\ b4a' = b
           /\ ret' = [ret EXCEPT ![p] = loaded]
           /\ probe' = [attempted |-> TRUE, hyperdrive |-> h, corestore |-> c,
                        b4a |-> b, result |-> loaded]
  /\ Goto(p, "lm_ret")
  /\ UNCHANGED <<globals, page, latestOut, dataSource, env, ihCaller, lmCaller, locals,
                 calls, connectOutcome, obs>>

\* 58-103: Promise.all has settled; h, c, b tell which imports succeeded
LM_AfterImports(p) ==
  /\ pc[p] = "lm_import"
  /\ \E h, c, b \in BOOLEAN :
       LET loaded == Len(failedModules(h, c, b)) = 0
       IN  /\ IF loaded
                THEN Hyperdrive' = TRUE /\ Corestore' = TRUE /\ b4a' = TRUE
                ELSE UNCHANGED handles
           /\ ret' = [ret EXCEPT ![p] = loaded]
           /\ probe' = [attempted |-> TRUE, hyperdrive |-> h, corestore |-> c,
                        b4a |-> b, result |-> loaded]
  /\ Goto(p, "lm_ret")
  /\ UNCHANGED <<globals, page, latestOut, dataSource, env, ihCaller, lmCaller, locals,
                 calls, connectOutcome, obs>>

\* ------------------------------------------------------------------------
\* initializeHyperdrive (index.js 117-198)
\* ------------------------------------------------------------------------
\* faulty variant of IH_Enter: the early return on hyperdriveInitialized is missing
IH_EnterUncached(p, c) ==
  /\ ihCaller' = [ihCaller EXCEPT ![p] = c]
  /\ LM_Enter(p, "ih")

\* 118-125
IH_Enter(p, c) ==
  /\ ihCaller' = [ihCaller EXCEPT ![p] = c]
  /\ IF hyperdriveInitialized
       THEN /\ Goto(p, "ih_ret")
            /\ ret' = [ret EXCEPT ![p] = drive]
            /\ UNCHANGED <<lmCaller, calls>>
       ELSE LM_Enter(p, "ih")

\* faulty variant of IH_Return: hyperdriveInitialized is not set
IH_ReturnUnmarked(p, value, outcome) ==
  /\ UNCHANGED hyperdriveInitialized
  /\ ret' = [ret EXCEPT ![p] = value]
  /\ connectOutcome' = outcome
  /\ Goto(p, "ih_ret")

\* 130-131, 178-183, 190-191: hyperdriveInitialized = true; return value
IH_Return(p, value, outcome) ==
  /\ hyperdriveInitialized' = TRUE
  /\ ret' = [ret EXCEPT ![p] = value]
  /\ connectOutcome' = outcome
  /\ Goto(p, "ih_ret")

\* 160-184 up to the await of drive.ready(); a constructor may throw
Construct(p) ==
  \E built \in {"none", "store", "both"} :
    /\ obs' = [obs EXCEPT ![p].connected = TRUE]
    /\ store' = (built # "none")
    /\ drive' = (built = "both")
    /\ calls' = [calls EXCEPT
                   !["Corestore"] = @ + 1,
                   !["Hyperdrive"] = IF built = "none" THEN @ ELSE @ + 1]
    /\ IF built = "both"
         THEN Goto(p, "ih_ready")
              /\ UNCHANGED <<hyperdriveInitialized, ret, connectOutcome>>
         ELSE IH_Return(p, FALSE, "construct")

\* 185-191
NoStorage(p) ==
  /\ IH_Return(p, FALSE, "storage")
  /\ UNCHANGED <<store, drive, calls, obs>>

PearEnv == {"undefined", "config.storage", "storage", "getStorage"}

\* faulty variant of IH_AfterModules: modulesLoaded is not tested
IH_AfterModulesUnchecked(p) ==
  /\ \E pear \in PearEnv :
       CASE pear = "undefined" -> NoStorage(p)
         [] pear = "getStorage" ->
              /\ Goto(p, "ih_getStorage")
              /\ UNCHANGED <<store, drive, hyperdriveInitialized, ret, calls,
                             connectOutcome, obs>>
         [] OTHER -> Construct(p)
  /\ UNCHANGED <<translationsLoaded, handles, page, latestOut, dataSource, env, ihCaller,
                 lmCaller, locals, probe>>

\* 126-158: loadHyperdriveModules has returned ret[p] to initializeHyperdrive
IH_AfterModules(p) ==
  /\ IF ~ret[p]
       THEN IH_Return(p, FALSE, "modules") /\ UNCHANGED <<store, drive, calls, obs>>
       ELSE \E pear \in PearEnv :
              CASE pear = "undefined" -> NoStorage(p)
                [] pear = "getStorage" ->
                     /\ Goto(p, "ih_getStorage")
                     /\ UNCHANGED <<store, drive, hyperdriveInitialized, ret,
                                    calls, connectOutcome, obs>>
                [] OTHER -> Construct(p)
  /\ UNCHANGED <<translationsLoaded, handles, page, latestOut, dataSource, env, ihCaller,
                 lmCaller, locals, probe>>

\* 152-160: Pear.getStorage() has settled
IH_AfterGetStorage(p) ==
  /\ pc[p] = "ih_getStorage"
  /\ \E path \in {"path", "empty", "rejected"} :
       IF path = "path" THEN Construct(p) ELSE NoStorage(p)
  /\ UNCHANGED <<translationsLoaded, handles, page, latestOut, dataSource, env, ihCaller,
                 lmCaller, locals, probe>>

\* 170-184: drive.ready() has settled
IH_AfterReady(p) ==
  /\ pc[p] = "ih_ready"
  /\ \E ok \in BOOLEAN :
       /\ driveOpened' = (driveOpened \/ ok)
       /\ IF ok THEN IH_Return(p, TRUE, "ready")
                ELSE IH_Return(p, FALSE, "handshake")
  /\ UNCHANGED <<store, drive, translationsLoaded, handles, page, latestOut, dataSource,
                 driveFile, ihCaller, lmCaller, locals, calls, probe, obs>>

\* ------------------------------------------------------------------------
\* loadTranslationsIntoDrive (index.js 218-274)
\* ------------------------------------------------------------------------
\* faulty variant of LT_Catch: the error is thrown on to initializeApp
LT_CatchRethrow(p) ==
  /\ translationsLoaded' = TRUE
  /\ Goto(p, "failed")

\* 269-273: the catch block
LT_Catch(p) ==
  /\ translationsLoaded' = TRUE
  /\ Goto(p, "lt_ret")

\* 225-236: initializeHyperdrive has returned ret[p]
LT_AfterInit(p) ==
  /\ pc[p] = "ih_ret" /\ ihCaller[p] = "lt"
  /\ IF ~ret[p] \/ ~drive
       THEN LT_Catch(p)
       ELSE Goto(p, "lt_ready") /\ UNCHANGED translationsLoaded
  /\ UNCHANGED <<store, drive, hyperdriveInitialized, handles, page, latestOut, dataSource,
                 env, ret, ihCaller, lmCaller, locals, calls, probe,
                 connectOutcome, obs>>

\* 236-240: drive.ready() has settled
LT_AfterReady(p) ==
  /\ pc[p] = "lt_ready"
  /\ \E ok \in BOOLEAN :
       /\ driveOpened' = (driveOpened \/ ok)
       /\ IF ok THEN Goto(p, "lt_fetch") /\ UNCHANGED translationsLoaded
                ELSE LT_Catch(p)
  /\ UNCHANGED <<store, drive, hyperdriveInitialized, handles, page, latestOut, dataSource,
                 driveFile, ret, ihCaller, lmCaller, locals, calls, probe,
                 connectOutcome, obs>>

\* 240-241: fetch("./translations.json") has settled
LT_AfterFetch(p) ==
  /\ pc[p] = "lt_fetch"
  /\ \E ok \in BOOLEAN :
       IF ok THEN Goto(p, "lt_json") /\ UNCHANGED translationsLoaded
             ELSE LT_Catch(p)
  /\ UNCHANGED <<store, drive, hyperdriveInitialized, handles, page, latestOut, dataSource,
                 env, ret, ihCaller, lmCaller, locals, calls, probe,
                 connectOutcome, obs>>

\* 249-254: b4a.from throws when b4a is still null, else drive.put is awaited
LT_Put(p) ==
  /\ IF b4a THEN Goto(p, "lt_put") /\ Called("put")
                 /\ UNCHANGED translationsLoaded
            ELSE LT_Catch(p) /\ UNCHANGED calls
  /\ UNCHANGED <<ret, lmCaller>>

\* 241-254: response.json() has settled
LT_AfterJson(p) ==
  /\ pc[p] = "lt_json"
  /\ \E ok \in BOOLEAN :
       IF ok
         THEN /\ translations' = [translations EXCEPT ![p] = LocalDoc]
              /\ IF ~b4a THEN LM_Enter(p, "lt") /\ UNCHANGED translationsLoaded
                         ELSE LT_Put(p)
         ELSE LT_Catch(p) /\ UNCHANGED <<translations, ret, lmCaller, calls>>
  /\ UNCHANGED <<store, drive, hyperdriveInitialized, handles, page, latestOut, dataSource,
                 env, ihCaller, translatedText, req, probe, connectOutcome, obs>>

\* 254-257: drive.put() has settled
LT_AfterPut(p) ==
  /\ pc[p] = "lt_put"
  /\ \E ok \in BOOLEAN :
       IF ok THEN /\ driveFile' = Encode(translations[p])
                  /\ Goto(p, "lt_flush")
                  /\ UNCHANGED translationsLoaded
             ELSE LT_Catch(p) /\ UNCHANGED driveFile
  /\ UNCHANGED <<store, drive, hyperdriveInitialized, handles, page, latestOut, dataSource,
                 driveOpened, ret, ihCaller, lmCaller, locals, calls, probe,
                 connectOutcome, obs>>

\* 257-273: drive.flush() has settled; both outcomes set translationsLoaded
LT_AfterFlush(p) ==
  /\ pc[p] = "lt_flush"
  /\ \E ok \in BOOLEAN : LT_Catch(p)
  /\ UNCHANGED <<store, drive, hyperdriveInitialized, handles, page, latestOut, dataSource,
                 env, ret, ihCaller, lmCaller, locals, calls, probe,
                 connectOutcome, obs>>

\* ------------------------------------------------------------------------
\* getTranslationsFromDrive (index.js 291-341)
\* ------------------------------------------------------------------------
\* faulty variant of GT_Fallback: returns without trying the local file
GT_GiveUp(p) == Goto(p, "gt_ret")

\* 329-331: the local fallback starts
GT_Fallback(p) == Goto(p, "gt_fetch")

\* 336-339
GT_LocalFailed(p) ==
  /\ translations' = [translations EXCEPT ![p] = NullDoc]
  /\ dataSource' = StatusError
  /\ obs' = [obs EXCEPT ![p].local = "error", ![p].emitted = StatusError]
  /\ Goto(p, "gt_ret")

\* 293-299 and 329-331: initializeHyperdrive has returned ret[p]
GT_AfterInit(p) ==
  /\ pc[p] = "ih_ret" /\ ihCaller[p] = "gt"
  /\ IF ret[p] /\ drive THEN Goto(p, "gt_ready") ELSE GT_Fallback(p)
  /\ UNCHANGED <<globals, handles, page, latestOut, dataSource, env, ret, ihCaller,
                 lmCaller, locals, calls, probe, connectOutcome, obs>>

\* faulty variant of GT_AfterReady: a rejected drive.ready() is ignored
GT_AfterReadyIgnored(p) ==
  /\ pc[p] = "gt_ready"
  /\ \E ok \in BOOLEAN : driveOpened' = (driveOpened \/ ok)
  /\ Goto(p, "gt_get")
  /\ UNCHANGED <<globals, handles, page, latestOut, dataSource, driveFile, ret, ihCaller,
                 lmCaller, locals, calls, probe, connectOutcome, obs>>

\* 299-303 and 321-331: drive.ready() has settled
GT_AfterReady(p) ==
  /\ pc[p] = "gt_ready"
  /\ \E ok \in BOOLEAN :
       /\ driveOpened' = (driveOpened \/ ok)
       /\ IF ok THEN Goto(p, "gt_get") /\ UNCHANGED obs
                ELSE GT_Fallback(p) /\ obs' = [obs EXCEPT ![p].drive = "error"]
  /\ UNCHANGED <<globals, handles, page, latestOut, dataSource, driveFile, ret, ihCaller,
                 lmCaller, locals, calls, probe, connectOutcome>>

\* faulty variant of GT_Parse: the document is returned without updateDataSource
GT_ParseSilent(p) ==
  /\ translations' = [translations EXCEPT ![p] = Decode(driveFile)]
  /\ obs' = [obs EXCEPT ![p].drive = "found", ![p].src = "drive"]
  /\ Goto(p, "gt_ret")
  /\ UNCHANGED <<dataSource, ret, lmCaller, calls>>

\* 312-317 and 321-331: b4a.toString throws when b4a is still null
GT_Parse(p) ==
  /\ IF b4a
       THEN /\ translations' = [translations EXCEPT ![p] = Decode(driveFile)]
            /\ dataSource' = StatusP2P
            /\ obs' = [obs EXCEPT ![p].drive = "found", ![p].src = "drive",
                                  ![p].emitted = StatusP2P]
            /\ Goto(p, "gt_ret")
       ELSE /\ GT_Fallback(p)
            /\ obs' = [obs EXCEPT ![p].drive = "error"]
            /\ UNCHANGED <<translations, dataSource>>
  /\ UNCHANGED <<ret, lmCaller, calls>>

\* 303-331: drive.get("translations.json") has settled; "rejected" stands for
\* every throw inside the try block (get rejects, toString or JSON.parse throws)
GT_AfterGet(p) ==
  /\ pc[p] = "gt_get"
  /\ \E got \in {"buffer", "null", "rejected"} :
       /\ got = "buffer" => driveFile # NoFile
       /\ got = "null" => driveFile = NoFile
       /\ CASE got = "buffer" ->
                 IF ~b4a THEN /\ LM_Enter(p, "gt")
                              /\ UNCHANGED <<translations, dataSource, obs>>
                         ELSE GT_Parse(p)
            [] got = "null" ->
                 /\ GT_Fallback(p)
                 /\ obs' = [obs EXCEPT ![p].drive = "absent"]
                 /\ UNCHANGED <<translations, dataSource, ret, lmCaller, calls>>
            [] OTHER ->
                 /\ GT_Fallback(p)
                 /\ obs' = [obs EXCEPT ![p].drive = "error"]
                 /\ UNCHANGED <<translations, dataSource, ret, lmCaller, calls>>
  /\ UNCHANGED <<globals, handles, page, latestOut, env, ihCaller, translatedText, req,
                 probe, connectOutcome>>

\* 331-339: fetch("./translations.json") has settled
GT_AfterFetch(p) ==
  /\ pc[p] = "gt_fetch"
  /\ \E ok \in BOOLEAN :
       IF ok THEN Goto(p, "gt_json") /\ UNCHANGED <<translations, dataSource, obs>>
             ELSE GT_LocalFailed(p)
  /\ UNCHANGED <<globals, handles, page, latestOut, env, ret, ihCaller, lmCaller,
                 translatedText, req, calls, probe, connectOutcome>>

\* 332-339: response.json() has settled
GT_AfterJson(p) ==
  /\ pc[p] = "gt_json"
  /\ \E ok \in BOOLEAN :
       IF ok
         THEN /\ translations' = [translations EXCEPT ![p] = LocalDoc]
              /\ dataSource' = StatusLocal
              /\ obs' = [obs EXCEPT ![p].local = "ok", ![p].src = "local",
                                    ![p].emitted = StatusLocal]
              /\ Goto(p, "gt_ret")
         ELSE GT_LocalFailed(p)
  /\ UNCHANGED <<globals, handles, page, latestOut, env, ret, ihCaller, lmCaller,
                 translatedText, req, calls, probe, connectOutcome>>

\* ------------------------------------------------------------------------
\* loadHyperdriveModules has returned ret[p] to whoever awaited it
\* (index.js 125, 245, 308)
\* ------------------------------------------------------------------------
AfterLoadModules(p) ==
  /\ pc[p] = "lm_ret"
  /\ CASE lmCaller[p] = "lt" ->
            /\ LT_Put(p)
            /\ UNCHANGED <<store, drive, hyperdriveInitialized, handles, page, latestOut,
                           dataSource, env, ihCaller, locals, probe,
                           connectOutcome, obs>>
       [] lmCaller[p] = "gt" ->
            /\ GT_Parse(p)
            /\ UNCHANGED <<globals, handles, page, latestOut, env, ihCaller,
                           translatedText, req, probe, connectOutcome>>
       [] OTHER -> IH_AfterModules(p)

\* ------------------------------------------------------------------------
\* performTranslation (index.js 420-437)
\* ------------------------------------------------------------------------
\* faulty variant of PT_AfterGet: the test of !translations is missing
PT_AfterGetUnchecked(p) ==
  /\ pc[p] = "gt_ret"
  /\ translatedText' =
       [translatedText EXCEPT ![p] =
          translateText(translations[p], req[p].inputText,
                        req[p].sourceLang, req[p].targetLang)]
  /\ obs' = [obs EXCEPT ![p].looked = TRUE]
  /\ Goto(p, "pt_ret")
  /\ UNCHANGED <<globals, handles, page, latestOut, dataSource, env, ret, ihCaller,
                 lmCaller, translations, req, calls, probe, connectOutcome>>

\* 427-436: getTranslationsFromDrive has returned translations[p]
PT_AfterGet(p) ==
  /\ pc[p] = "gt_ret"
  /\ IF translations[p] = NullDoc
       THEN /\ translatedText' = [translatedText EXCEPT ![p] = MsgLoadError]
            /\ UNCHANGED obs
       ELSE /\ translatedText' =
                 [translatedText EXCEPT ![p] =
                    translateText(translations[p], req[p].inputText,
                                  req[p].sourceLang, req[p].targetLang)]
            /\ obs' = [obs EXCEPT ![p].looked = TRUE]
  /\ Goto(p, "pt_ret")
  /\ UNCHANGED <<globals, handles, page, latestOut, dataSource, env, ret, ihCaller,
                 lmCaller, translations, req, calls, probe, connectOutcome>>

\* ------------------------------------------------------------------------
\* handleTranslate (index.js 471-517)
\* ------------------------------------------------------------------------
\* 449-453
updateOutput(text, className) ==
  /\ outputText' = text
  /\ outputClass' = className

\* no invocation was started after r
MostRecent(r) == \A q \in Requests : q > r => pc[q] = "idle"

\* history: invocation r has written text to the output area
Shown(r, text) ==
  latestOut' = IF MostRecent(r) THEN text ELSE latestOut

\* 472-503, with performTranslation 421-427 up to its first await
handleTranslate(r, sourceLang, targetLang, inputText) ==
  IF sourceLang = targetLang
    THEN /\ updateOutput(MsgSameLang, "error")
         /\ Shown(r, MsgSameLang)
         /\ Goto(r, "done")
         /\ UNCHANGED <<disabled, ret, ihCaller, lmCaller, calls, translatedText,
                        req>>
  ELSE IF Blank(inputText)
    THEN /\ updateOutput(MsgEnterText, "error")
         /\ Shown(r, MsgEnterText)
         /\ Goto(r, "done")
         /\ UNCHANGED <<disabled, ret, ihCaller, lmCaller, calls, translatedText,
                        req>>
  ELSE /\ disabled' = TRUE
       /\ updateOutput(MsgTranslating, "loading")
       /\ Shown(r, MsgTranslating)
       /\ req' = [req EXCEPT ![r] = [sourceLang |-> sourceLang,
                                     targetLang |-> targetLang,
                                     inputText |-> inputText]]
       /\ IF Blank(inputText)
            THEN /\ translatedText' = [translatedText EXCEPT ![r] = MsgEnterText]
                 /\ Goto(r, "pt_ret")
                 /\ UNCHANGED <<ret, ihCaller, lmCaller, calls>>
            ELSE IH_Enter(r, "gt") /\ UNCHANGED translatedText

\* the next invocation takes the next free workflow
Fresh(r) ==
  /\ pc[r] = "idle"
  /\ \A q \in Requests : q < r => pc[q] # "idle"

\* 535: a click on #translateBtn (a disabled button dispatches no click)
Click(r) ==
  /\ listening /\ ~disabled /\ Fresh(r)
  /\ \E s, t \in Langs, x \in InputTexts : handleTranslate(r, s, t, x)
  /\ UNCHANGED <<globals, handles, dataSource, listening, env, translations,
                 probe, connectOutcome, obs>>

\* 539-545: Ctrl+Enter or Cmd+Enter in #inputText
CtrlEnter(r) ==
  /\ listening /\ Fresh(r)
  /\ \E s, t \in Langs, x \in InputTexts : handleTranslate(r, s, t, x)
  /\ UNCHANGED <<globals, handles, dataSource, listening, env, translations,
                 probe, connectOutcome, obs>>

\* faulty variant of HT_AfterPerform: the finally block is missing
HT_AfterPerformNoFinally(r) ==
  /\ pc[r] = "pt_ret"
  /\ updateOutput(IF Truthy(translatedText[r]) THEN translatedText[r]
                                               ELSE MsgNotAvailable, "")
  /\ Shown(r, IF Truthy(translatedText[r]) THEN translatedText[r]
                                           ELSE MsgNotAvailable)
  /\ Finish(r)
  /\ UNCHANGED <<globals, handles, disabled, dataSource, listening, env, calls,
                 probe, connectOutcome>>

\* 505-516: performTranslation has returned translatedText[r]
HT_AfterPerform(r) ==
  /\ pc[r] = "pt_ret"
  /\ updateOutput(IF Truthy(translatedText[r]) THEN translatedText[r]
                                               ELSE MsgNotAvailable, "")
  /\ Shown(r, IF Truthy(translatedText[r]) THEN translatedText[r]
                                           ELSE MsgNotAvailable)
  /\ disabled' = FALSE
  /\ Finish(r)
  /\ UNCHANGED <<globals, handles, dataSource, listening, env, calls, probe,
                 connectOutcome>>

\* ------------------------------------------------------------------------
\* initializeApp (index.js 527-556)
\* ------------------------------------------------------------------------
\* faulty variant of AppStart: the listeners are registered before the load
AppStartListening ==
  /\ pc[App] = "idle"
  /\ listening' = TRUE
  /\ IF translationsLoaded
       THEN Goto(App, "lt_ret") /\ UNCHANGED <<ret, ihCaller, lmCaller, calls>>
       ELSE IH_Enter(App, "lt")
  /\ UNCHANGED <<globals, handles, disabled, outputText, outputClass, latestOut,
                 dataSource, env, locals, probe, connectOutcome, obs>>

\* 527-531, with loadTranslationsIntoDrive 219-225 up to its first await
AppStart ==
  /\ pc[App] = "idle"
  /\ IF translationsLoaded
       THEN Goto(App, "lt_ret") /\ UNCHANGED <<ret, ihCaller, lmCaller, calls>>
       ELSE IH_Enter(App, "lt")
  /\ UNCHANGED <<globals, handles, page, latestOut, dataSource, env, locals, probe,
                 connectOutcome, obs>>

\* 533-547: loadTranslationsIntoDrive has returned
AppListen ==
  /\ pc[App] = "lt_ret"
  /\ listening' = TRUE
  /\ Finish(App)
  /\ UNCHANGED <<globals, handles, disabled, outputText, outputClass, dataSource,
                 env, calls, probe, connectOutcome, latestOut>>

Next ==
  \/ AppStart
  \/ AppListen
  \/ \E p \in Procs :
       \/ LM_AfterImports(p)
       \/ AfterLoadModules(p)
       \/ IH_AfterGetStorage(p)
       \/ IH_AfterReady(p)
       \/ LT_AfterInit(p)
       \/ LT_AfterReady(p)
       \/ LT_AfterFetch(p)
       \/ LT_AfterJson(p)
       \/ LT_AfterPut(p)
       \/ LT_AfterFlush(p)
       \/ GT_AfterInit(p)
       \/ GT_AfterReady(p)
       \/ GT_AfterGet(p)
       \/ GT_AfterFetch(p)
       \/ GT_AfterJson(p)
       \/ PT_AfterGet(p)
  \/ \E r \in Requests :
       \/ Click(r)
       \/ CtrlEnter(r)
       \/ HT_AfterPerform(r)

Spec == Init /\ [][Next]_vars

\* ------------------------------------------------------------------------
\* Scheduling: the event loop runs every job whose awaited call has settled
\* ------------------------------------------------------------------------
\* the continuation of workflow p after the call it awaits has settled
Settle(p) ==
  \/ LM_AfterImports(p)
  \/ AfterLoadModules(p)
  \/ IH_AfterGetStorage(p)
  \/ IH_AfterReady(p)
  \/ LT_AfterInit(p)
  \/ LT_AfterReady(p)
  \/ LT_AfterFetch(p)
  \/ LT_AfterJson(p)
  \/ LT_AfterPut(p)
  \/ LT_AfterFlush(p)
  \/ GT_AfterInit(p)
  \/ GT_AfterReady(p)
  \/ GT_AfterGet(p)
  \/ GT_AfterFetch(p)
  \/ GT_AfterJson(p)
  \/ PT_AfterGet(p)

\* 550-556 start initializeApp; its jobs run to the end of the function
AppJob == AppStart \/ AppListen \/ Settle(App)

\* the jobs of one handleTranslate invocation after the event that started it
RequestJob(r) == Settle(r) \/ HT_AfterPerform(r)

\* every external call settles and every ready job is run; the user's clicks
\* and key presses are under no obligation
LiveSpec ==
  /\ Spec
  /\ WF_vars(AppJob)
  /\ \A r \in Requests : WF_vars(RequestJob(r))

\* ------------------------------------------------------------------------
\* Further calls of loadTranslationsIntoDrive
\* ------------------------------------------------------------------------
\* faulty variant of LT_Call: the translationsLoaded test at 220 is skipped
LT_CallUnguarded(r) ==
  /\ Fresh(r)
  /\ pc[App] = "done"
  /\ IH_Enter(r, "lt")
  /\ UNCHANGED <<globals, handles, page, latestOut, dataSource, env, locals, probe,
                 connectOutcome, obs>>

\* 218-225: loadTranslationsIntoDrive is called again, in a workflow of its
\* own, after the call made by initializeApp has completed
LT_Call(r) ==
  /\ Fresh(r)
  /\ pc[App] = "done"
  /\ IF translationsLoaded
       THEN Goto(r, "lt_ret") /\ UNCHANGED <<ret, ihCaller, lmCaller, calls>>
       ELSE IH_Enter(r, "lt")
  /\ UNCHANGED <<globals, handles, page, latestOut, dataSource, env, locals, probe,
                 connectOutcome, obs>>

\* 222, 231, 274: the later call has returned to its caller
LT_Return(r) ==
  /\ pc[r] = "lt_ret"
  /\ Finish(r)
  /\ UNCHANGED <<globals, handles, page, latestOut, dataSource, env, calls, probe,
                 connectOutcome>>

CallSpec ==
  Init /\ [][Next \/ \E r \in Requests : LT_Call(r) \/ LT_Return(r)]_vars

\* ------------------------------------------------------------------------
\* Process shutdown
\* ------------------------------------------------------------------------
\* The process ends, at any moment. The file registers no teardown, unload or
\* exit handler and calls close() nowhere, so no code runs: every workflow
\* stops where it is and the module's globals stay as they were.
Exit ==
  /\ \E p \in Procs : pc[p] # "exit"
  /\ pc' = [p \in Procs |-> "exit"]
  /\ ret' = [p \in Procs |-> FALSE]
  /\ ihCaller' = [p \in Procs |-> "none"]
  /\ lmCaller' = [p \in Procs |-> "none"]
  /\ translations' = [p \in Procs |-> NullDoc]
  /\ translatedText' = [p \in Procs |-> <<>>]
  /\ req' = [p \in Procs |-> NoReq]
  /\ obs' = [p \in Procs |-> NoObs]
  /\ UNCHANGED <<globals, handles, page, latestOut, dataSource, env, calls, probe,
                 connectOutcome>>

ExitSpec == Init /\ [][Next \/ Exit]_vars

\* ------------------------------------------------------------------------
\* translateText on its own (index.js 363-409): one call on every text of at
\* most MaxLen characters, every pair of languages and each dictionary
\* ------------------------------------------------------------------------
MaxLen == 3
Alphabet == {"H", "h", "i", "x", " "}

RECURSIVE TextsOfLen(_)
TextsOfLen(n) ==
  IF n = 0 THEN { <<>> }
  ELSE { Append(t, c) : t \in TextsOfLen(n - 1), c \in Alphabet }

Texts == UNION { TextsOfLen(n) : n \in 0..MaxLen }

\* a dictionary with a two-word phrase whose words are keys as well
PhraseDoc ==
  [en |-> << <<<<"h", " ", "i">>, <<"h", " ", "i">>>>,
             <<<<"h">>, <<"h">>>>, <<<<"i">>, <<"i">>>> >>,
   es |-> << <<<<"h", " ", "i">>, <<"o">>>>,
             <<<<"h">>, <<"i">>>>, <<<<"i">>, <<"h">>>> >>]

Docs == {LocalDoc, PhraseDoc}

Caller == 1

TextInit ==
  /\ store = FALSE /\ drive = FALSE /\ hyperdriveInitialized = FALSE
  /\ Hyperdrive = FALSE /\ Corestore = FALSE /\ b4a = FALSE
  /\ translationsLoaded = FALSE
  /\ disabled = FALSE /\ outputText = <<>> /\ outputClass = ""
  /\ dataSource = StatusNone /\ listening = FALSE
  /\ latestOut = <<>>
  /\ driveFile = NoFile /\ driveOpened = FALSE
  /\ pc = [p \in Procs |-> IF p = Caller THEN "tt_call" ELSE "idle"]
  /\ ret = [p \in Procs |-> FALSE]
  /\ ihCaller = [p \in Procs |-> "none"]
  /\ lmCaller = [p \in Procs |-> "none"]
  /\ \E doc \in Docs :
       translations = [p \in Procs |-> IF p = Caller THEN doc ELSE NullDoc]
  /\ translatedText = [p \in Procs |-> <<>>]
  /\ \E s \in Langs, t \in Langs, x \in Texts :
       req = [p \in Procs |->
                IF p = Caller
                  THEN [sourceLang |-> s, targetLang |-> t, inputText |-> x]
                  ELSE NoReq]
  /\ calls = [f \in Primitives |-> 0]
  /\ probe = [attempted |-> FALSE, hyperdrive |-> FALSE, corestore |-> FALSE,
              b4a |-> FALSE, result |-> FALSE]
  /\ connectOutcome = "none"
  /\ obs = [p \in Procs |-> NoObs]

\* 434: translateText(translations, text, fromLang, toLang)
TT_Apply ==
  /\ pc[Caller] = "tt_call"
  /\ translatedText' =
       [translatedText EXCEPT ![Caller] =
          translateText(translations[Caller], req[Caller].inputText,
                        req[Caller].sourceLang, req[Caller].targetLang)]
  /\ Goto(Caller, "tt_ret")
  /\ UNCHANGED <<globals, handles, page, latestOut, dataSource, env, ret, ihCaller,
                 lmCaller, translations, req, calls, probe, connectOutcome, obs>>

TextSpec == TextInit /\ [][TT_Apply]_vars

\* ------------------------------------------------------------------------
\* Properties
\* ------------------------------------------------------------------------
ProbeUnavailable == probe.attempted /\ ~probe.result
ConnectFailed == connectOutcome \in {"construct", "handshake"}

\* pcs at which a call on the drive is pending
DriveCalls == {"ih_ready", "lt_ready", "gt_ready", "gt_get", "lt_put", "lt_flush"}
NoP2PStep ==
  /\ calls["Corestore"] = 0 /\ calls["Hyperdrive"] = 0 /\ calls["put"] = 0
  /\ ~store /\ ~drive
  /\ \A p \in Procs : pc[p] \notin DriveCalls

\* C1 as stated: once the probe has reported unavailable no Corestore or
\* Hyperdrive is constructed and no drive.ready/get/put is called, and every
\* completed lookup has read the local file and set the local-fallback status.
C1_LocalStatusAlways ==
  ProbeUnavailable =>
    /\ NoP2PStep
    /\ \A r \in Requests : pc[r] = "gt_ret" =>
         obs[r].local = "ok" /\ obs[r].emitted = StatusLocal

\* C1 amended: once the probe has reported unavailable no peer-to-peer step is
\* performed, every completed lookup went to the local file and never to the
\* drive, and its status is the local-fallback value when that read succeeded
\* and the error value when it failed.
C1_LocalOnly ==
  ProbeUnavailable =>
    /\ NoP2PStep
    /\ dataSource # StatusP2P
    /\ \A r \in Requests : pc[r] = "gt_ret" =>
         /\ obs[r].drive = "none" /\ obs[r].local # "none"
         /\ obs[r].emitted =
              (IF obs[r].local = "ok" THEN StatusLocal ELSE StatusError)

C1_Witness ==
  \E r \in Requests :
    ProbeUnavailable /\ pc[r] = "gt_ret" /\ obs[r].local = "ok"
      /\ dataSource = StatusLocal

\* C2: a lookup that found the file absent from the drive, or whose drive read
\* failed, completes by the local file: it returns the local document, and
\* null only when the local read failed too.
C2_FallbackOnDriveMiss ==
  \A p \in Procs :
    (pc[p] = "gt_ret" /\ obs[p].drive \in {"absent", "error"}) =>
      /\ obs[p].local \in {"ok", "error"}
      /\ (translations[p] = NullDoc) <=> (obs[p].local = "error")
      /\ obs[p].local = "ok" => translations[p] = LocalDoc

C2_Witness ==
  \E p \in Procs :
    pc[p] = "gt_ret" /\ obs[p].drive = "absent" /\ translations[p] = LocalDoc

\* C3: once the probe has produced a result, available or unavailable, no
\* step starts another import of hyperdrive, corestore and b4a.
C3_NoReimport ==
  [][probe.attempted =>
       /\ calls'["import"] = calls["import"]
       /\ \A p \in Procs : pc'[p] # "lm_import"]_vars

C3_Witness ==
  \E r \in Requests : ProbeUnavailable /\ pc[r] = "ih_ret" /\ calls["import"] = 1

\* C4: the probe's result is available exactly when the three imports all
\* succeeded, whatever the combination, and the module handles are set
\* exactly then.
C4_AvailableIffAllThree ==
  probe.attempted =>
    /\ probe.result = (probe.hyperdrive /\ probe.corestore /\ probe.b4a)
    /\ (Hyperdrive /\ Corestore /\ b4a) = probe.result
    /\ \A p \in Procs :
         (pc[p] = "lm_ret" /\ lmCaller[p] = "ih") => ret[p] = probe.result

C4_Witness ==
  \E p \in Procs :
    /\ pc[p] = "lm_ret" /\ ~ret[p]
    /\ probe.attempted /\ probe.hyperdrive /\ probe.corestore /\ ~probe.b4a

\* C5 as stated: every call of initializeHyperdrive returns true exactly when
\* the drive was constructed and a ready() of it has completed successfully,
\* which is the outcome the first call reported.
C5_ReturnsDriveReady ==
  \A p \in Procs :
    pc[p] = "ih_ret" =>
      /\ ret[p] = (drive /\ driveOpened)
      /\ ret[p] = (connectOutcome = "ready")

C7_NothingHeld ==
  ConnectFailed => ~store /\ ~drive

\* C8: drive.get and drive.put (and the flush after it) are pending only when
\* a drive.ready() has completed successfully.
C8_ReadyBeforeAccess ==
  \A p \in Procs : pc[p] \in {"gt_get", "lt_put", "lt_flush"} => driveOpened

C8_Witness ==
  \E r \in Requests : pc[r] = "gt_get" /\ pc[App] = "done" /\ calls["put"] = 1

\* C9: translateText has run for a request only if its lookup obtained a
\* document from the drive or the local file; when neither did, it has not
\* run and performTranslation returns the load-error message.
C9_LookupAfterLoad ==
  \A r \in Requests :
    /\ obs[r].looked =>
         obs[r].src \in {"drive", "local"} /\ translations[r] # NullDoc
    /\ (pc[r] = "pt_ret" /\ obs[r].src = "none") =>
         ~obs[r].looked /\ translatedText[r] = MsgLoadError

C9_Witness ==
  \E r \in Requests :
    pc[r] = "pt_ret" /\ obs[r].looked /\ translatedText[r] = <<"h", "o">>

\* C10: a completed getTranslationsFromDrive has emitted the peer-to-peer
\* status exactly when its document came from the drive, the local-fallback
\* status exactly when it came from the local file, and the error status
\* exactly when it returns null.
C10_StatusMatchesSource ==
  \A p \in Procs :
    pc[p] = "gt_ret" =>
      /\ (obs[p].emitted = StatusP2P) <=> (obs[p].src = "drive")
      /\ (obs[p].emitted = StatusLocal) <=> (obs[p].src = "local")
      /\ (obs[p].emitted = StatusError) <=> (translations[p] = NullDoc)
      /\ (translations[p] = NullDoc) <=> (obs[p].src = "none")

C10_Witness ==
  \E p \in Procs :
    pc[p] = "gt_ret" /\ obs[p].src = "drive" /\ dataSource = StatusP2P


\* ------------------------------------------------------------------------
\* Properties of translateText (under TextSpec)
\* ------------------------------------------------------------------------
Returned == pc[Caller] = "tt_ret"
Input == req[Caller].inputText
Result == translatedText[Caller]
SourceDict == translations[Caller][req[Caller].sourceLang]
TargetDict == translations[Caller][req[Caller].targetLang]
Normalized == trim(toLowerCase(Input))

HasKey(dict, key) == \E i \in 1..Len(dict) : dict[i][1] = key
HasValue(dict, value) == \E i \in 1..Len(dict) : dict[i][2] = value

\* the input is one word (no inner whitespace) that is neither a key nor a
\* value of the dictionary, in any letter case
AbsentWord ==
  /\ Normalized # <<>>
  /\ \A i \in 1..Len(Normalized) : Normalized[i] \notin Whitespace
  /\ \A l \in Langs : ~HasKey(translations[Caller][l], Normalized)
                      /\ ~HasValue(translations[Caller][l], Normalized)

\* C11 as stated: between two different languages a word absent from the
\* dictionary comes back as it was typed (surrounding whitespace aside).
C11_AbsentWordUnchanged ==
  (Returned /\ req[Caller].sourceLang # req[Caller].targetLang /\ AbsentWord)
    => Result = trim(Input)

\* C12: when the lowercased, trimmed input is a key of the source and of the
\* target mapping, the result is the target mapping's value for that key,
\* whatever the input's letter case and surrounding whitespace.
C12_NormalizedMatch ==
  (Returned /\ req[Caller].sourceLang # req[Caller].targetLang
     /\ HasKey(SourceDict, Normalized) /\ HasKey(TargetDict, Normalized))
    => \E i \in 1..Len(TargetDict) :
         TargetDict[i][1] = Normalized /\ Result = TargetDict[i][2]

C12_Witness ==
  /\ Returned
  /\ req[Caller].sourceLang = "en" /\ req[Caller].targetLang = "es"
  /\ translations[Caller] = LocalDoc
  /\ Input = <<" ", "H", "i">>
  /\ Result = <<"h", "o">>


\* ------------------------------------------------------------------------
\* Properties of start-up (under LiveSpec)
\* ------------------------------------------------------------------------
\* C13: in every execution initializeApp runs to its end and registers the
\* click and keydown handlers, whatever the outcome of the imports, the
\* storage lookup, the constructions, ready() and the initial upload.
C13_HandlersRegistered == <>(listening /\ pc[App] = "done")

\* the handlers are registered although the peer-to-peer set-up failed
C13_Witness ==
  /\ listening /\ pc[App] = "done"
  /\ hyperdriveInitialized /\ ~drive
  /\ translationsLoaded


\* ------------------------------------------------------------------------
\* Properties of shutdown (under ExitSpec)
\* ------------------------------------------------------------------------
Exited == \A p \in Procs : pc[p] = "exit"

\* C14 as stated: once the process has shut down, no store and no drive that
\* was opened is still held open, whether or not drive.ready() ever resolved.
C14_ReleasedOnExit == Exited => (~store /\ ~drive)


\* ------------------------------------------------------------------------
\* Properties of the initial upload (under CallSpec)
\* ------------------------------------------------------------------------
UploadSteps == {"lt_ready", "lt_fetch", "lt_json", "lt_put", "lt_flush"}

\* workflow p is inside loadTranslationsIntoDrive, past the test at 220
Uploading(p) == ihCaller[p] = "lt" \/ pc[p] \in UploadSteps

\* C17: once the call made by initializeApp has completed (uploaded, skipped
\* or failed), no later call gets past the translationsLoaded test, so none
\* reads the local file or calls drive.put; drive.put is called at most once,
\* and only while a drive is held.
C17_UploadOneShot ==
  [][ /\ (pc[App] = "done")' => \A p \in Procs : ~Uploading(p)'
      /\ calls'["put"] <= 1
      /\ calls'["put"] # calls["put"] => drive ]_vars

\* a later call has returned although nothing was ever put
C17_Witness ==
  /\ pc[App] = "done"
  /\ \E r \in Requests : pc[r] = "lt_ret"
  /\ calls["put"] = 0 /\ translationsLoaded


\* ------------------------------------------------------------------------
\* Properties of handleTranslate (under LiveSpec)
\* ------------------------------------------------------------------------
\* invocation r has disabled the button and has not reached its finally block
InFlight(r) == pc[r] \notin {"idle", "done"}

\* C18: an invocation that disabled the button does not stay in flight (a
\* workflow never returns to "idle", so it reaches "done") and its last step
\* re-enables the button, so the button does not stay disabled either;
\* an invocation rejected by validation (same languages, blank input) ends in
\* the job that started it, leaves the button as it was and starts no load.
C18_ButtonReenabled ==
  /\ [][\A r \in Requests :
          /\ (InFlight(r) /\ pc'[r] = "done") => ~disabled'
          /\ (pc[r] = "idle" /\ pc'[r] = "done") =>
               /\ disabled' = disabled
               /\ calls' = calls
               /\ \A q \in Requests \ {r} : pc'[q] = pc[q] ]_vars
  /\ \A r \in Requests : []<>(~InFlight(r))
  /\ []<>(~disabled)

\* a translation has been shown and the button is enabled again
C18_Witness ==
  /\ \E r \in Requests : pc[r] = "done"
  /\ outputText = <<"h", "o">> /\ outputClass = ""
  /\ ~disabled

\* C19 as stated: while any invocation is in flight the button is disabled.
C19_DisabledWhileInFlight == (\E r \in Requests : InFlight(r)) => disabled


\* C20 as stated: once no invocation is in flight, the output area shows what
\* the most recently started invocation wrote last.
C20_LatestRequestShown ==
  ((\E r \in Requests : pc[r] = "done") /\ \A r \in Requests : ~InFlight(r))
    => outputText = latestOut


\* ------------------------------------------------------------------------
\* Properties of the module globals (under Spec)
\* ------------------------------------------------------------------------
\* workflow p is inside initializeHyperdrive, at one of its awaits
Initializing(p) == pc[p] \in {"lm_import", "lm_ret", "ih_getStorage", "ih_ready"}

\* C21: new Corestore and new Hyperdrive are each executed at most once, and
\* while initializeApp has not finished its load no handler is registered and
\* no translate request exists, so none runs initializeHyperdrive beside it.
C21_SingleConnection ==
  /\ calls["Corestore"] <= 1
  /\ calls["Hyperdrive"] <= 1
  /\ pc[App] # "done" => (~listening /\ \A r \in Requests : pc[r] = "idle")
  /\ Initializing(App) => \A r \in Requests : ~Initializing(r)

\* both were constructed once and a translate request has since called
\* initializeHyperdrive
C21_Witness ==
  /\ calls["Corestore"] = 1 /\ calls["Hyperdrive"] = 1
  /\ pc[App] = "done"
  /\ \E r \in Requests : pc[r] = "ih_ret" /\ ihCaller[r] = "gt"


\* the next job of workflow p converts with b4a (b4a.from at 249, b4a.toString
\* at 311)
Converting(p) == pc[p] \in {"lt_json", "gt_get"}

\* C22: Hyperdrive, Corestore and b4a are all unset or all set, a store or a
\* drive is held only when all three are set, and a workflow about to convert
\* a buffer finds b4a set.
C22_HandlesTogether ==
  /\ Hyperdrive = Corestore /\ Corestore = b4a
  /\ (store \/ drive) => (Hyperdrive /\ Corestore /\ b4a)
  /\ \A p \in Procs : Converting(p) => b4a

\* a drive is held and a translate request is about to decode what it read
C22_Witness ==
  /\ drive /\ Hyperdrive /\ Corestore /\ b4a
  /\ \E r \in Requests : pc[r] = "gt_get"


\* ------------------------------------------------------------------------
\* Phrase precedence in translateText (under TextSpec)
\* ------------------------------------------------------------------------
PhraseMatch == HasKey(SourceDict, Normalized) /\ HasKey(TargetDict, Normalized)

\* the words of the normalized input, each translated on its own
WordByWord ==
  LET words == split(Normalized)
  IN  join([i \in 1..Len(words) |->
              translateWord(SourceDict, TargetDict, words[i])])

\* C23: between two different languages, a normalized input that is a key of
\* both mappings yields the target value of the whole phrase, even when its
\* words are keys too; only without such a match is the result the
\* word-by-word translation.
C23_PhraseFirst ==
  (Returned /\ req[Caller].sourceLang # req[Caller].targetLang)
    => Result = IF PhraseMatch THEN Lookup(TargetDict, Normalized)
                               ELSE WordByWord

\* the phrase "h i" is a key and so are "h" and "i": the phrase's value wins
C23_Witness ==
  /\ Returned
  /\ translations[Caller] = PhraseDoc
  /\ req[Caller].sourceLang = "en" /\ req[Caller].targetLang = "es"
  /\ Normalized = <<"h", " ", "i">>
  /\ WordByWord = <<"i", " ", "h">>
  /\ Result = <<"o">>

====
